---- MODULE Spec2Model ----
(***************************************************************************)
(* AudioProcessorPlayer (juce_audio_utils/players): the bridge between an  *)
(* audio device's real-time callback and a hot-swappable AudioProcessor.   *)
(*                                                                         *)
(* Threads: "dev" is the audio device (audioDeviceIOCallback,              *)
(* audioDeviceStopped, audioDeviceAboutToStart: the device framework       *)
(* serialises its own hooks), "c1"/"c2" are control threads (setProcessor, *)
(* prepareToPlay).  Every step is one synchronisation-relevant event: a    *)
(* lock acquisition, the start or the end of a call into the unit.         *)
(* Channels and samples are 1-based here (C++ index i is i+1).             *)
(***************************************************************************)
EXTENDS Integers, Sequences, FiniteSets, TLC

\* ------------------------------------------------------------- bounds
MaxChans == 2
LifeIn == 1
LifeOut == 1
MaxSamples == 2
MaxRate == 2
MaxBlock == 1
MaxPending == 1
MaxCount == 2

\* ---------------------------------------------------------- constants
Units == {"A", "B"}
NoUnit == "null"
Control == {"c1", "c2"}
Device == "dev"
Threads == Control \cup {Device}
NoThread == "none"

\* an indeterminate sample: memory that was allocated and never written
Undef == -1
\* a sample written by the unit's processBlock
Processed == -2
\* the slack prepareToPlay adds to the channel-pointer array
ChannelSlack == 2

NullPtr == <<"null", 0>>
OutPtr(i) == <<"out", i>>
TmpPtr(r) == <<"tmp", r>>

Max(a, b) == IF a > b THEN a ELSE b
Min(a, b) == IF a < b THEN a ELSE b
Inc(n) == Min(n + 1, MaxCount)

Zeros(n) == [s \in 1..n |-> 0]
Fresh(n) == [s \in 1..n |-> Undef]

VARIABLES
    processor,        \* AudioProcessor* processor
    sampleRate,       \* double sampleRate
    blockSize,        \* int blockSize
    isPrepared,       \* bool isPrepared
    numInputChans,    \* int numInputChans
    numOutputChans,   \* int numOutputChans
    tempBuffer,       \* AudioSampleBuffer tempBuffer: rows of samples
    channels,         \* HeapBlock<float*> channels: the pointer array
    lock,             \* CriticalSection lock: its owner
    midiQueue,        \* messageCollector: events waiting for a block
    incomingMidi,     \* MidiBuffer incomingMidi: events of the current block
    pc,               \* each thread's position
    arg,              \* setProcessor's processorToPlay, per thread
    oldOne,           \* setProcessor's local oldOne, per thread
    ret,              \* where a thread's setProcessor call returns to
    oldProcessor,     \* prepareToPlay's local oldProcessor, per thread
    cb,               \* the running callback's arguments and locals
    callbackLock,     \* each unit's getCallbackLock(): its owner
    unitLive,         \* unit holds resources: prepared and not released since
    prepares,         \* prepare calls completed since the unit's installation began
    unitConfig        \* the unit's last setPlayConfigDetails

playerVars == <<processor, sampleRate, blockSize, isPrepared, numInputChans,
                numOutputChans, tempBuffer, channels, lock>>
midiVars == <<midiQueue, incomingMidi>>
threadVars == <<pc, arg, oldOne, ret, oldProcessor>>
unitVars == <<callbackLock, unitLive, prepares, unitConfig>>
vars == <<playerVars, midiVars, threadVars, cb, unitVars>>

NoConfig == <<0, 0, 0, 0>>

CbIdle == [numIn |-> 0, numOut |-> 0, numSamples |-> 0, in |-> <<>>, out |-> <<>>,
           buffer |-> <<>>, unit |-> NoUnit, suspended |-> FALSE,
           tempTouched |-> FALSE, processCalls |-> 0]

\* AudioProcessorPlayer::AudioProcessorPlayer()
Init ==
    /\ processor = NoUnit
    /\ sampleRate = 0
    /\ blockSize = 0
    /\ isPrepared = FALSE
    /\ numInputChans = 0
    /\ numOutputChans = 0
    /\ tempBuffer = <<Fresh(1)>>
    /\ channels = <<>>
    /\ lock = NoThread
    /\ midiQueue = 0
    /\ incomingMidi = 0
    /\ pc = [t \in Threads |-> "idle"]
    /\ arg = [t \in Threads |-> NoUnit]
    /\ oldOne = [t \in Threads |-> NoUnit]
    /\ ret = [t \in Threads |-> "idle"]
    /\ oldProcessor = [t \in Threads |-> NoUnit]
    /\ cb = CbIdle
    /\ callbackLock = [u \in Units |-> NoThread]
    /\ unitLive = [u \in Units |-> FALSE]
    /\ prepares = [u \in Units |-> 0]
    /\ unitConfig = [u \in Units |-> NoConfig]

\* ------------------------------------------------------- setProcessor
\* faulty variant: the identity test left out
SetProcessorAlways(p) == TRUE

\* line 45: the unlocked identity test
SetProcessorNeeded(p) == processor # p

\* faulty variant: the new unit is published without being prepared
NeedsPrepareSkipped(p) == FALSE

\* line 47: the new unit is prepared only by a configured player
NeedsPrepare(p) == p # NoUnit /\ sampleRate > 0 /\ blockSize > 0

\* faulty variant: a lock its owner cannot take again
CanLockExclusive(t) == lock = NoThread

\* faulty variant: the critical section entered without waiting for the lock
CanLockUnguarded(t) == TRUE

\* ScopedLock on a re-entrant CriticalSection: free, or already this thread's
CanLock(t) == lock \in {NoThread, t}

\* faulty variant: the lock's scope runs on past the swap
AfterUnlockKept(t, before) == t

\* faulty variant: a lock that is not re-entrant, freed by the inner scope's end
AfterUnlockDropped(t, before) == NoThread

\* the owner once a ScopedLock taken while the owner was `before` goes out of scope
AfterUnlock(t, before) == IF before = t THEN t ELSE NoThread

\* line 59: the unit to release after the swap
CapturedOld == IF isPrepared THEN processor ELSE NoUnit

\* setProcessor returns: to the caller's next position
SpFinish(t) ==
    /\ pc' = [pc EXCEPT ![t] = ret[t]]
    /\ arg' = [arg EXCEPT ![t] = NoUnit]
    /\ oldOne' = [oldOne EXCEPT ![t] = NoUnit]
    /\ ret' = [ret EXCEPT ![t] = "idle"]

\* lines 45-53: entry of setProcessor(p), returning to position r.  The fields are
\* read without the lock, here all at one instant.
SpEnter(t, p, r) ==
    /\ IF ~SetProcessorNeeded(p)
         THEN /\ pc' = [pc EXCEPT ![t] = "sp_noop"]
              /\ UNCHANGED <<unitConfig, prepares>>
         ELSE IF NeedsPrepare(p)
         THEN \* setPlayConfigDetails, then prepareToPlay starts
              /\ unitConfig' = [unitConfig EXCEPT ![p] =
                     <<numInputChans, numOutputChans, sampleRate, blockSize>>]
              /\ prepares' = [prepares EXCEPT ![p] = 0]
              /\ pc' = [pc EXCEPT ![t] = "sp_prepare"]
         ELSE /\ pc' = [pc EXCEPT ![t] = "sp_swap"]
              /\ prepares' = IF p # NoUnit THEN [prepares EXCEPT ![p] = 0] ELSE prepares
              /\ UNCHANGED unitConfig
    /\ arg' = [arg EXCEPT ![t] = p]
    /\ ret' = [ret EXCEPT ![t] = r]
    /\ UNCHANGED <<playerVars, midiVars, oldOne, oldProcessor, cb, callbackLock, unitLive>>

\* a client calls setProcessor(p)
SetProcessor(t, p) ==
    /\ pc[t] = "idle"
    /\ SpEnter(t, p, "idle")

\* line 67 reached with nothing done
SpNoop(t) ==
    /\ pc[t] = "sp_noop"
    /\ SpFinish(t)
    /\ UNCHANGED <<playerVars, midiVars, oldProcessor, cb, unitVars>>

\* line 52: processorToPlay->prepareToPlay returns
SpPrepareDone(t) ==
    /\ pc[t] = "sp_prepare"
    /\ unitLive' = [unitLive EXCEPT ![arg[t]] = TRUE]
    /\ prepares' = [prepares EXCEPT ![arg[t]] = Inc(@)]
    /\ pc' = [pc EXCEPT ![t] = "sp_swap"]
    /\ UNCHANGED <<playerVars, midiVars, arg, oldOne, ret, oldProcessor, cb,
                   callbackLock, unitConfig>>

\* lines 57-65: the locked swap; with a captured unit, releaseResources starts
SpSwap(t) ==
    /\ pc[t] = "sp_swap"
    /\ CanLock(t)
    /\ processor' = arg[t]
    /\ isPrepared' = TRUE
    /\ lock' = AfterUnlock(t, lock)
    /\ IF CapturedOld # NoUnit
         THEN /\ oldOne' = [oldOne EXCEPT ![t] = CapturedOld]
              /\ unitLive' = [unitLive EXCEPT ![CapturedOld] = FALSE]
              /\ pc' = [pc EXCEPT ![t] = "sp_release"]
              /\ UNCHANGED <<arg, ret>>
         ELSE /\ SpFinish(t)
              /\ UNCHANGED unitLive
    /\ UNCHANGED <<sampleRate, blockSize, numInputChans, numOutputChans, tempBuffer,
                   channels, midiVars, oldProcessor, cb, callbackLock, prepares,
                   unitConfig>>

\* line 65: oldOne->releaseResources returns
SpReleaseDone(t) ==
    /\ pc[t] = "sp_release"
    /\ SpFinish(t)
    /\ UNCHANGED <<playerVars, midiVars, oldProcessor, cb, unitVars>>

\* ------------------------------------------------------ prepareToPlay
\* faulty variant: the array is sized for the outputs alone
ChannelCapacityOfOutputs(numChansIn, numChansOut) == numChansOut + ChannelSlack

\* line 153: channels.calloc (jmax (numChansIn, numChansOut) + 2)
ChannelCapacity(numChansIn, numChansOut) == Max(numChansIn, numChansOut) + ChannelSlack

\* lines 145-158: the lock is taken and kept; the fields are set; with a unit
\* installed and marked prepared, its releaseResources starts
PrepareToPlay(t, newSampleRate, newBlockSize, numChansIn, numChansOut) ==
    /\ pc[t] = "idle"
    /\ lock = NoThread
    /\ sampleRate' = newSampleRate
    /\ blockSize' = newBlockSize
    /\ numInputChans' = numChansIn
    /\ numOutputChans' = numChansOut
    /\ midiQueue' = 0
    /\ channels' = [k \in 1..ChannelCapacity(numChansIn, numChansOut) |-> NullPtr]
    /\ IF processor # NoUnit
         THEN /\ lock' = t
              /\ oldProcessor' = [oldProcessor EXCEPT ![t] = processor]
              /\ IF isPrepared
                   THEN /\ unitLive' = [unitLive EXCEPT ![processor] = FALSE]
                        /\ pc' = [pc EXCEPT ![t] = "ptp_release"]
                   ELSE /\ pc' = [pc EXCEPT ![t] = "ptp_sp1"]
                        /\ UNCHANGED unitLive
         ELSE /\ lock' = NoThread
              /\ UNCHANGED <<pc, oldProcessor, unitLive>>
    /\ UNCHANGED <<processor, isPrepared, tempBuffer, incomingMidi, arg, oldOne, ret,
                   cb, callbackLock, prepares, unitConfig>>

\* line 158: processor->releaseResources returns
PtpReleaseDone(t) ==
    /\ pc[t] = "ptp_release"
    /\ pc' = [pc EXCEPT ![t] = "ptp_sp1"]
    /\ UNCHANGED <<playerVars, midiVars, arg, oldOne, ret, oldProcessor, cb, unitVars>>

\* line 161: setProcessor (nullptr)
PtpUninstall(t) ==
    /\ pc[t] = "ptp_sp1"
    /\ SpEnter(t, NoUnit, "ptp_sp2")

\* line 162: setProcessor (oldProcessor)
PtpReinstall(t) ==
    /\ pc[t] = "ptp_sp2"
    /\ SpEnter(t, oldProcessor[t], "ptp_exit")

\* line 164: the ScopedLock goes out of scope
PtpExit(t) ==
    /\ pc[t] = "ptp_exit"
    /\ lock' = NoThread
    /\ pc' = [pc EXCEPT ![t] = "idle"]
    /\ oldProcessor' = [oldProcessor EXCEPT ![t] = NoUnit]
    /\ UNCHANGED <<processor, sampleRate, blockSize, isPrepared, numInputChans,
                   numOutputChans, tempBuffer, channels, midiVars, arg, oldOne, ret,
                   cb, unitVars>>

\* lines 166-172: the device reports its rate, block size and active channels
AudioDeviceAboutToStart(newSampleRate, newBlockSize, numChansIn, numChansOut) ==
    PrepareToPlay(Device, newSampleRate, newBlockSize, numChansIn, numChansOut)

\* ------------------------------------------------- audioDeviceStopped
\* faulty variant: a buffer that is large enough is never given a new shape
SetSizeGrowOnly(buf, rows, cols) ==
    IF Len(buf) >= rows /\ Len(buf[1]) >= cols
      THEN buf
      ELSE [r \in 1..rows |-> Fresh(cols)]

\* AudioSampleBuffer::setSize without keepExistingContent: the same shape is left
\* alone, another shape leaves the samples indeterminate
SetSize(buf, rows, cols) ==
    IF Len(buf) = rows /\ Len(buf[1]) = cols
      THEN buf
      ELSE [r \in 1..rows |-> Fresh(cols)]

\* lines 181-184
StoppedFields ==
    /\ sampleRate' = 0
    /\ blockSize' = 0
    /\ isPrepared' = FALSE
    /\ tempBuffer' = SetSize(tempBuffer, 1, 1)

\* faulty variant: the prepared mark is not consulted
ReleaseOnStopUnmarked == processor # NoUnit

\* line 178
ReleaseOnStop == processor # NoUnit /\ isPrepared

\* lines 176-185: under the lock; a prepared unit's releaseResources starts
AudioDeviceStopped ==
    /\ pc[Device] = "idle"
    /\ lock = NoThread
    /\ IF ReleaseOnStop
         THEN /\ lock' = Device
              /\ unitLive' = [unitLive EXCEPT ![processor] = FALSE]
              /\ pc' = [pc EXCEPT ![Device] = "ads_release"]
              /\ UNCHANGED <<sampleRate, blockSize, isPrepared, tempBuffer>>
         ELSE /\ StoppedFields
              /\ UNCHANGED <<lock, unitLive, pc>>
    /\ UNCHANGED <<processor, numInputChans, numOutputChans, channels, midiVars, arg,
                   oldOne, ret, oldProcessor, cb, callbackLock, prepares, unitConfig>>

\* line 179 returns; lines 181-185
AdsReleaseDone ==
    /\ pc[Device] = "ads_release"
    /\ StoppedFields
    /\ lock' = NoThread
    /\ pc' = [pc EXCEPT ![Device] = "idle"]
    /\ UNCHANGED <<processor, numInputChans, numOutputChans, channels, midiVars, arg,
                   oldOne, ret, oldProcessor, cb, unitVars>>

\* lines 187-190: an event arrives from a MIDI input thread
HandleIncomingMidiMessage ==
    /\ midiQueue < MaxPending
    /\ midiQueue' = midiQueue + 1
    /\ UNCHANGED <<playerVars, incomingMidi, threadVars, cb, unitVars>>

\* ---------------------------------------------- audioDeviceIOCallback
\* the device's input block: silence, or a signal whose samples differ per
\* channel and per position
InputData(numIn, numSamples, signal) ==
    [i \in 1..numIn |-> [k \in 1..numSamples |->
        IF signal THEN (i - 1) * numSamples + k ELSE 0]]

\* faulty variant: every surplus channel lands in the first row
TempRowFirst(i, numOut) == 1

\* line 100: the remap-buffer row of surplus input channel i
TempRow(i, numOut) == i - numOut

\* lines 93-95 and 109-111: output i joins the unified channels, input i copied over it
CopyToOutput(st, in, i) ==
    [st EXCEPT !.out[i] = in[i], !.chans = Append(@, OutPtr(i))]

\* lines 100-102: a remap-buffer row joins the unified channels, input i copied into it
CopyToTemp(st, in, i, numOut) ==
    [st EXCEPT !.temp[TempRow(i, numOut)] = in[i],
               !.chans = Append(@, TmpPtr(TempRow(i, numOut)))]

\* faulty variant: the spare output joins the unified channels without being zeroed
ZeroOutputSkipped(st, i, numSamples) ==
    [st EXCEPT !.chans = Append(@, OutPtr(i))]

\* lines 116-118: output i joins the unified channels, zeroed
ZeroOutput(st, i, numSamples) ==
    [st EXCEPT !.out[i] = Zeros(numSamples), !.chans = Append(@, OutPtr(i))]

RECURSIVE CopyLoop(_, _, _, _)
\* the for loops of lines 91 and 107, from i up to last
CopyLoop(st, in, i, last) ==
    IF i > last THEN st ELSE CopyLoop(CopyToOutput(st, in, i), in, i + 1, last)

RECURSIVE TempLoop(_, _, _, _, _)
\* the for loop of line 98
TempLoop(st, in, i, last, numOut) ==
    IF i > last THEN st ELSE TempLoop(CopyToTemp(st, in, i, numOut), in, i + 1, last, numOut)

RECURSIVE ZeroLoop(_, _, _, _)
\* the for loop of line 114
ZeroLoop(st, i, last, numSamples) ==
    IF i > last THEN st ELSE ZeroLoop(ZeroOutput(st, i, numSamples), i + 1, last, numSamples)

\* lines 81-120: the unified channel array over the device's buffers
Remap(in, numIn, numOut, numSamples, temp) ==
    LET st0 == [out |-> [i \in 1..numOut |-> Fresh(numSamples)], temp |-> temp,
                chans |-> <<>>, touched |-> FALSE]
    IN  IF numIn > numOut
          THEN LET st1 == [st0 EXCEPT !.temp = SetSize(temp, numIn - numOut, numSamples),
                                      !.touched = TRUE]
               IN  TempLoop(CopyLoop(st1, in, 1, numOut), in, numOut + 1, numIn, numOut)
          ELSE ZeroLoop(CopyLoop(st0, in, 1, numIn), numIn + 1, numOut, numSamples)

\* faulty variant: the slice keeps the events of the block before
ClearedKept(held) == held

\* line 79: incomingMidi.clear()
Cleared(held) == 0

\* MidiMessageCollector::removeNextBlockOfMessages: the events of this block
TakeBlock(queue, numSamples) == queue

\* lines 76-122, before the lock: the device delivers at most the channels it
\* reported when it started
CallbackRemap(numIn, numOut, numSamples, signal) ==
    /\ pc[Device] = "idle"
    /\ numIn <= numInputChans
    /\ numOut <= numOutputChans
    /\ LET in == InputData(numIn, numSamples, signal)
           st == Remap(in, numIn, numOut, numSamples, tempBuffer)
       IN  /\ tempBuffer' = st.temp
           /\ channels' = [k \in 1..Len(channels) |->
                              IF k <= Len(st.chans) THEN st.chans[k] ELSE channels[k]]
           /\ cb' = [CbIdle EXCEPT !.numIn = numIn, !.numOut = numOut,
                                   !.numSamples = numSamples, !.in = in,
                                   !.out = st.out, !.buffer = st.chans,
                                   !.tempTouched = st.touched]
    /\ incomingMidi' = Cleared(incomingMidi) + TakeBlock(midiQueue, numSamples)
    /\ midiQueue' = midiQueue - TakeBlock(midiQueue, numSamples)
    /\ pc' = [pc EXCEPT ![Device] = "cb_lock"]
    /\ UNCHANGED <<processor, sampleRate, blockSize, isPrepared, numInputChans,
                   numOutputChans, lock, arg, oldOne, ret, oldProcessor, unitVars>>

\* line 124: const ScopedLock sl (lock)
CallbackLock ==
    /\ pc[Device] = "cb_lock"
    /\ CanLock(Device)
    /\ lock' = Device
    /\ pc' = [pc EXCEPT ![Device] = "cb_dispatch"]
    /\ UNCHANGED <<processor, sampleRate, blockSize, isPrepared, numInputChans,
                   numOutputChans, tempBuffer, channels, midiVars, arg, oldOne, ret,
                   oldProcessor, cb, unitVars>>

\* line 126
HasProcessor == processor # NoUnit

\* faulty variant: the zeroing loop stops one output short
SilenceOutputsShort(out, numOut, numSamples) ==
    [i \in 1..numOut |-> IF i < numOut THEN Zeros(numSamples) ELSE out[i]]

\* lines 132-133: every device output buffer is zeroed
SilenceOutputs(out, numOut, numSamples) == [i \in 1..numOut |-> Zeros(numSamples)]

\* faulty variant: a missing unit is treated like a suspended one
DispatchOutputsSilent(hasUnit, suspended, out, numOut, numSamples) ==
    IF ~hasUnit \/ suspended THEN SilenceOutputs(out, numOut, numSamples) ELSE out

\* lines 126-139: what the branches before processBlock do to the output buffers
DispatchOutputs(hasUnit, suspended, out, numOut, numSamples) ==
    IF hasUnit /\ suspended THEN SilenceOutputs(out, numOut, numSamples) ELSE out

\* lines 126-137: no unit; or the unit's callback lock is taken and the unit is
\* asked whether it is suspended: silence, or processBlock starts
CallbackDispatch(suspended) ==
    /\ pc[Device] = "cb_dispatch"
    /\ IF ~HasProcessor
         THEN /\ suspended = FALSE
              /\ pc' = [pc EXCEPT ![Device] = "cb_return"]
              /\ cb' = [cb EXCEPT !.out = DispatchOutputs(FALSE, suspended, cb.out,
                                                          cb.numOut, cb.numSamples)]
              /\ UNCHANGED callbackLock
         ELSE /\ callbackLock[processor] = NoThread
              /\ callbackLock' = [callbackLock EXCEPT ![processor] = Device]
              /\ IF suspended
                   THEN /\ cb' = [cb EXCEPT !.unit = processor, !.suspended = TRUE,
                                      !.out = DispatchOutputs(TRUE, suspended, cb.out,
                                                              cb.numOut, cb.numSamples)]
                        /\ pc' = [pc EXCEPT ![Device] = "cb_return"]
                   ELSE /\ cb' = [cb EXCEPT !.unit = processor, !.processCalls = @ + 1]
                        /\ pc' = [pc EXCEPT ![Device] = "cb_process"]
    /\ UNCHANGED <<playerVars, midiVars, arg, oldOne, ret, oldProcessor, unitLive,
                   prepares, unitConfig>>

\* the sample rows behind a unified channel
Deref(ptr, out, temp) ==
    IF ptr[1] = "out" THEN out[ptr[2]] ELSE temp[ptr[2]]

\* line 137 returns: the unit has written its output in place
CallbackProcessDone ==
    /\ pc[Device] = "cb_process"
    /\ cb' = [cb EXCEPT !.out = [i \in 1..cb.numOut |->
                           IF OutPtr(i) \in {cb.buffer[k] : k \in 1..Len(cb.buffer)}
                             THEN [s \in 1..cb.numSamples |-> Processed] ELSE cb.out[i]]]
    /\ tempBuffer' = [r \in 1..Len(tempBuffer) |->
                           IF TmpPtr(r) \in {cb.buffer[k] : k \in 1..Len(cb.buffer)}
                             THEN [s \in 1..cb.numSamples |-> Processed] ELSE tempBuffer[r]]
    /\ pc' = [pc EXCEPT ![Device] = "cb_return"]
    /\ UNCHANGED <<processor, sampleRate, blockSize, isPrepared, numInputChans,
                   numOutputChans, channels, lock, midiVars, arg, oldOne, ret,
                   oldProcessor, unitVars>>

\* line 140: both ScopedLocks go out of scope and the callback returns
CallbackReturn ==
    /\ pc[Device] = "cb_return"
    /\ lock' = NoThread
    /\ callbackLock' = [u \in Units |-> IF callbackLock[u] = Device THEN NoThread
                                         ELSE callbackLock[u]]
    /\ cb' = CbIdle
    /\ pc' = [pc EXCEPT ![Device] = "idle"]
    /\ UNCHANGED <<processor, sampleRate, blockSize, isPrepared, numInputChans,
                   numOutputChans, tempBuffer, channels, midiVars, arg, oldOne, ret,
                   oldProcessor, unitLive, prepares, unitConfig>>

\* ------------------------------------------------------ specification
Rates == 1..MaxRate
Blocks == 1..MaxBlock

\* the steps inside setProcessor, prepareToPlay and audioDeviceStopped
LifecycleSteps ==
    \/ \E t \in Threads : SpNoop(t)
    \/ \E t \in Threads : SpPrepareDone(t)
    \/ \E t \in Threads : SpSwap(t)
    \/ \E t \in Threads : SpReleaseDone(t)
    \/ \E t \in Threads : PtpReleaseDone(t)
    \/ \E t \in Threads : PtpUninstall(t)
    \/ \E t \in Threads : PtpReinstall(t)
    \/ \E t \in Threads : PtpExit(t)
    \/ AdsReleaseDone

\* the steps of a running callback
CallbackSteps ==
    \/ CallbackLock
    \/ \E suspended \in BOOLEAN : CallbackDispatch(suspended)
    \/ CallbackProcessDone
    \/ CallbackReturn

\* The player with one control thread beside the device: every operation, the
\* device having LifeIn active inputs and LifeOut active outputs and delivering
\* blocks of one sample over exactly the channels it reported.
Next ==
    \/ \E p \in Units \cup {NoUnit} : SetProcessor("c1", p)
    \/ \E r \in Rates, b \in Blocks : PrepareToPlay("c1", r, b, LifeIn, LifeOut)
    \/ \E r \in Rates, b \in Blocks : AudioDeviceAboutToStart(r, b, LifeIn, LifeOut)
    \/ AudioDeviceStopped
    \/ CallbackRemap(numInputChans, numOutputChans, 1, TRUE)
    \/ LifecycleSteps
    \/ CallbackSteps

Spec == Init /\ [][Next]_vars

\* A configured player, with no unit or with unit A installed and prepared: the
\* state after construction, prepareToPlay (1, 1, MaxChans, MaxChans) and, for
\* A, setProcessor (A).
InitRemap ==
    /\ processor \in {NoUnit, "A"}
    /\ sampleRate = 1
    /\ blockSize = 1
    /\ isPrepared = (processor # NoUnit)
    /\ numInputChans = MaxChans
    /\ numOutputChans = MaxChans
    /\ tempBuffer = <<Fresh(1)>>
    /\ channels = [k \in 1..ChannelCapacity(MaxChans, MaxChans) |-> NullPtr]
    /\ lock = NoThread
    /\ midiQueue = 0
    /\ incomingMidi = 0
    /\ pc = [t \in Threads |-> "idle"]
    /\ arg = [t \in Threads |-> NoUnit]
    /\ oldOne = [t \in Threads |-> NoUnit]
    /\ ret = [t \in Threads |-> "idle"]
    /\ oldProcessor = [t \in Threads |-> NoUnit]
    /\ cb = CbIdle
    /\ callbackLock = [u \in Units |-> NoThread]
    /\ unitLive = [u \in Units |-> u = processor]
    /\ prepares = [u \in Units |-> IF u = processor THEN 1 ELSE 0]
    /\ unitConfig = [u \in Units |-> IF u = processor
                        THEN <<MaxChans, MaxChans, 1, 1>> ELSE NoConfig]

\* The callback's data path in full: every channel layout up to MaxChans, blocks
\* of up to MaxSamples samples, silence and signal, MIDI input.
NextRemap ==
    \/ HandleIncomingMidiMessage
    \/ \E i \in 0..MaxChans, o \in 0..MaxChans, n \in 1..MaxSamples, signal \in BOOLEAN :
           CallbackRemap(i, o, n, signal)
    \/ CallbackSteps

SpecRemap == InitRemap /\ [][NextRemap]_vars

\* A configured player with unit A installed and prepared: the state after
\* prepareToPlay (r, b, LifeIn, LifeOut) and setProcessor (A).
InitSwap ==
    /\ processor = "A"
    /\ sampleRate \in Rates
    /\ blockSize \in Blocks
    /\ isPrepared = TRUE
    /\ numInputChans = LifeIn
    /\ numOutputChans = LifeOut
    /\ tempBuffer = <<Fresh(1)>>
    /\ channels = [k \in 1..ChannelCapacity(LifeIn, LifeOut) |-> NullPtr]
    /\ lock = NoThread
    /\ midiQueue = 0
    /\ incomingMidi = 0
    /\ pc = [t \in Threads |-> "idle"]
    /\ arg = [t \in Threads |-> NoUnit]
    /\ oldOne = [t \in Threads |-> NoUnit]
    /\ ret = [t \in Threads |-> "idle"]
    /\ oldProcessor = [t \in Threads |-> NoUnit]
    /\ cb = CbIdle
    /\ callbackLock = [u \in Units |-> NoThread]
    /\ unitLive = [u \in Units |-> u = "A"]
    /\ prepares = [u \in Units |-> IF u = "A" THEN 1 ELSE 0]
    /\ unitConfig = [u \in Units |-> IF u = "A"
                        THEN <<LifeIn, LifeOut, sampleRate, blockSize>> ELSE NoConfig]

\* One control thread swaps A for B while the device keeps calling back.
NextSwap ==
    \/ SetProcessor("c1", "B")
    \/ SpNoop("c1")
    \/ SpPrepareDone("c1")
    \/ SpSwap("c1")
    \/ SpReleaseDone("c1")
    \/ \E i \in 0..LifeIn, o \in 0..LifeOut, signal \in BOOLEAN :
           CallbackRemap(i, o, 1, signal)
    \/ CallbackSteps

SpecSwap == InitSwap /\ [][NextSwap]_vars

\* The device alone, at one rate and block size over every channel layout up to
\* MaxChans: it starts, stops and calls back, on a player that was given no unit
\* or unit A before the device first started.
InitDevice ==
    /\ processor \in {NoUnit, "A"}
    /\ sampleRate = 0
    /\ blockSize = 0
    /\ isPrepared = (processor # NoUnit)
    /\ numInputChans = 0
    /\ numOutputChans = 0
    /\ tempBuffer = <<Fresh(1)>>
    /\ channels = <<>>
    /\ lock = NoThread
    /\ midiQueue = 0
    /\ incomingMidi = 0
    /\ pc = [t \in Threads |-> "idle"]
    /\ arg = [t \in Threads |-> NoUnit]
    /\ oldOne = [t \in Threads |-> NoUnit]
    /\ ret = [t \in Threads |-> "idle"]
    /\ oldProcessor = [t \in Threads |-> NoUnit]
    /\ cb = CbIdle
    /\ callbackLock = [u \in Units |-> NoThread]
    /\ unitLive = [u \in Units |-> FALSE]
    /\ prepares = [u \in Units |-> 0]
    /\ unitConfig = [u \in Units |-> NoConfig]

NextDevice ==
    \/ \E i \in 0..MaxChans, o \in 0..MaxChans :
           AudioDeviceAboutToStart(MaxRate, MaxBlock, i, o)
    \/ PtpReleaseDone(Device)
    \/ PtpUninstall(Device)
    \/ SpSwap(Device)
    \/ SpReleaseDone(Device)
    \/ PtpReinstall(Device)
    \/ SpPrepareDone(Device)
    \/ PtpExit(Device)
    \/ AudioDeviceStopped
    \/ AdsReleaseDone
    \/ \E i \in 0..MaxChans, o \in 0..MaxChans, n \in 1..MaxSamples :
           CallbackRemap(i, o, n, TRUE)
    \/ CallbackSteps

SpecDevice == InitDevice /\ [][NextDevice]_vars

\* Two control threads install units on the configured player of InitSwap while
\* the device keeps calling back.
NextRace ==
    \/ \E t \in Control, p \in Units : SetProcessor(t, p)
    \/ \E t \in Control : SpNoop(t)
    \/ \E t \in Control : SpPrepareDone(t)
    \/ \E t \in Control : SpSwap(t)
    \/ \E t \in Control : SpReleaseDone(t)
    \/ CallbackRemap(LifeIn, LifeOut, 1, TRUE)
    \/ CallbackSteps

SpecRace == InitSwap /\ [][NextRace]_vars

\* The player under fair scheduling: a thread inside a player method keeps running
\* (every unit call returns), and the callback, which may find the lock taken
\* again and again, is not passed over for ever.
Fairness ==
    /\ WF_vars(LifecycleSteps)
    /\ WF_vars(CallbackSteps)
    /\ SF_vars(CallbackLock)

\* every operation of Next, the player being configured at one rate and block size
NextFair ==
    \/ \E p \in Units \cup {NoUnit} : SetProcessor("c1", p)
    \/ PrepareToPlay("c1", MaxRate, MaxBlock, LifeIn, LifeOut)
    \/ AudioDeviceAboutToStart(MaxRate, MaxBlock, LifeIn, LifeOut)
    \/ AudioDeviceStopped
    \/ CallbackRemap(numInputChans, numOutputChans, 1, TRUE)
    \/ LifecycleSteps
    \/ CallbackSteps

SpecFair == Init /\ [][NextFair]_vars /\ Fairness

\* ------------------------------------------------------------ claims
InProcessBlock(u) == pc[Device] = "cb_process" /\ cb.unit = u
InPrepare(t) == pc[t] = "sp_prepare"
InRelease(t) == pc[t] \in {"sp_release", "ptp_release", "ads_release"}
Quiescent == \A t \in Threads : pc[t] = "idle"
AfterRemap == pc[Device] \in {"cb_lock", "cb_dispatch", "cb_process"}

\* C1 (SpecSwap): while one setProcessor(B) interleaves with callbacks on a
\* configured player that has A installed, processBlock runs on B only once B's
\* setPlayConfigDetails + prepareToPlay has completed: B then holds its resources,
\* was given the player's configuration, and no prepare of B is still running.
C1_ProcessOnlyAfterPrepare ==
    InProcessBlock("B") =>
        /\ unitLive["B"]
        /\ prepares["B"] = 1
        /\ unitConfig["B"] = <<numInputChans, numOutputChans, sampleRate, blockSize>>
        /\ \A t \in Threads : ~(InPrepare(t) /\ arg[t] = "B")

C1_Witness == InProcessBlock("B")

\* C2 (SpecSwap): A's releaseResources starts only after A's last processBlock
\* has returned: whenever processBlock runs on A, no release of A has started
\* (A still holds its resources and no thread is inside A's release).
C2_ReleaseAfterLastProcess ==
    InProcessBlock("A") =>
        /\ unitLive["A"]
        /\ \A t \in Threads : ~(InRelease(t) /\ oldOne[t] = "A")

C2_Witness ==
    /\ pc["c1"] = "sp_release"
    /\ oldOne["c1"] = "A"
    /\ InProcessBlock("B")

\* C3 (Spec), as claimed: between calls, an installed unit that is marked
\* prepared has received exactly one prepare since its installation began and no
\* release since.
C3_PreparedMeansPrepared ==
    (Quiescent /\ processor # NoUnit /\ isPrepared) =>
        (prepares[processor] = 1 /\ unitLive[processor])

\* the player was started and then stopped: only prepareToPlay allocates the
\* channel array, only audioDeviceStopped zeroes the rate
StoppedAfterStart == sampleRate = 0 /\ Len(channels) > 0

\* C4 (Spec), as claimed: a callback that arrives after audioDeviceStopped and
\* before the next prepareToPlay does not call processBlock on the unit that was
\* installed when the device stopped (no setProcessor has swapped since: the
\* prepared mark audioDeviceStopped cleared is still clear).
C4_NoDispatchWhenStopped ==
    (StoppedAfterStart /\ ~isPrepared) => pc[Device] # "cb_process"

\* C5 (Spec): setProcessor(U) with U already installed does nothing: the call
\* goes straight to its end, and neither that step nor its return changes the
\* player, the event buffers, the callback or any unit.
C5_SameUnitNoop ==
    [][\A t \in Threads :
          /\ (pc[t] = "idle" /\ pc'[t] \in {"sp_noop", "sp_prepare", "sp_swap"}
                /\ arg'[t] = processor)
               => (pc'[t] = "sp_noop"
                     /\ UNCHANGED <<playerVars, midiVars, cb, unitVars>>)
          /\ (pc[t] = "sp_noop" /\ pc'[t] # "sp_noop")
               => (pc'[t] = "idle"
                     /\ UNCHANGED <<playerVars, midiVars, cb, unitVars>>)]_vars

C5_Witness ==
    \E t \in Threads : pc[t] = "sp_noop" /\ arg[t] = processor /\ processor # NoUnit

\* C6 (SpecRemap): with more inputs than outputs, from the end of the remap to
\* the return of processBlock: output i holds input i and is unified channel i
\* for i <= numOut; the unified channels above numOut are distinct rows of
\* tempBuffer holding the surplus inputs; there are exactly numIn channels.
C6_SurplusInputs ==
    (AfterRemap /\ cb.numIn > cb.numOut) =>
        /\ Len(cb.buffer) = cb.numIn
        /\ Len(cb.out) = cb.numOut
        /\ \A i \in 1..cb.numOut : cb.out[i] = cb.in[i] /\ cb.buffer[i] = OutPtr(i)
        /\ \A i \in (cb.numOut + 1)..cb.numIn :
              /\ cb.buffer[i][1] = "tmp"
              /\ cb.buffer[i][2] \in 1..Len(tempBuffer)
              /\ Deref(cb.buffer[i], cb.out, tempBuffer) = cb.in[i]
        /\ \A i, j \in (cb.numOut + 1)..cb.numIn :
              i # j => cb.buffer[i] # cb.buffer[j]

C6_Witness ==
    /\ pc[Device] = "cb_process"
    /\ cb.numIn - cb.numOut >= 2
    /\ cb.in[cb.numIn] # cb.in[cb.numIn - 1]

\* C7 (SpecRemap): with at least as many outputs as inputs, from the end of the
\* remap to the return of processBlock: output i holds input i for i <= numIn,
\* the outputs above numIn are all zero, the unified channels are exactly the
\* numOut outputs, and the remap left tempBuffer alone.
C7_SpareOutputs ==
    /\ [](AfterRemap /\ cb.numOut >= cb.numIn =>
            /\ Len(cb.buffer) = cb.numOut
            /\ Len(cb.out) = cb.numOut
            /\ \A i \in 1..cb.numIn : cb.out[i] = cb.in[i]
            /\ \A i \in (cb.numIn + 1)..cb.numOut : cb.out[i] = Zeros(cb.numSamples)
            /\ \A i \in 1..cb.numOut : cb.buffer[i] = OutPtr(i)
            /\ ~cb.tempTouched)
    /\ [][(pc[Device] = "idle" /\ pc'[Device] = "cb_lock" /\ cb'.numOut >= cb'.numIn)
             => tempBuffer' = tempBuffer]_vars

C7_Witness ==
    /\ pc[Device] = "cb_process"
    /\ cb.numOut > cb.numIn
    /\ cb.numIn >= 1
    /\ cb.in[1] # Zeros(cb.numSamples)
    /\ Len(tempBuffer) > 1

\* C8 (SpecRemap): when the installed unit reports itself suspended, the callback
\* returns without having called processBlock and with every one of the numOut
\* output buffers all zero, whatever the channel counts.
C8_SuspendedIsSilent ==
    (pc[Device] = "cb_return" /\ cb.suspended) =>
        /\ cb.unit # NoUnit
        /\ cb.processCalls = 0
        /\ Len(cb.out) = cb.numOut
        /\ \A i \in 1..cb.numOut : cb.out[i] = Zeros(cb.numSamples)

C8_Witness ==
    /\ pc[Device] = "cb_return"
    /\ cb.suspended
    /\ cb.numIn >= 1
    /\ cb.numOut >= 1
    /\ cb.in[1] # Zeros(cb.numSamples)

\* C9 (SpecRemap): with no unit installed the callback returns the remap's
\* result untouched: output i holds input i up to min(numIn, numOut) and every
\* further output is all zero.
C9_NoUnitPassthrough ==
    (pc[Device] = "cb_return" /\ cb.unit = NoUnit) =>
        /\ cb.processCalls = 0
        /\ Len(cb.out) = cb.numOut
        /\ \A i \in 1..cb.numOut :
              cb.out[i] = IF i <= cb.numIn THEN cb.in[i] ELSE Zeros(cb.numSamples)

C9_Witness ==
    /\ pc[Device] = "cb_return"
    /\ cb.unit = NoUnit
    /\ cb.numIn >= 1
    /\ cb.numOut > cb.numIn
    /\ cb.in[1] # Zeros(cb.numSamples)

\* a thread is inside a unit's prepareToPlay or releaseResources
InUnitLifecycleCall(t) == InPrepare(t) \/ InRelease(t)

\* C10 (Spec), as claimed: no thread holds the player's lock while it is inside
\* a unit's prepareToPlay or releaseResources.
C10_NeverLockedInUnitCall ==
    \A t \in Threads : InUnitLifecycleCall(t) => lock # t

\* C10 (Spec), amended: a setProcessor call made by a client does not hold the
\* lock during the unit's prepareToPlay or releaseResources, while prepareToPlay
\* (through its own release and the two setProcessor calls it makes) and
\* audioDeviceStopped hold it throughout theirs.
C10_LockOnlyInConfigureAndStop ==
    \A t \in Threads :
        InUnitLifecycleCall(t) =>
            (lock = t <=> (pc[t] \in {"ptp_release", "ads_release"} \/ ret[t] # "idle"))

C10_Witness ==
    /\ \E t \in Threads : pc[t] = "sp_release" /\ ret[t] = "idle" /\ lock # t
    /\ \E t \in Threads : InPrepare(t) /\ ret[t] = "ptp_exit" /\ lock = t

\* a thread is inside prepareToPlay with a unit installed
InConfigure(t) ==
    \/ pc[t] \in {"ptp_release", "ptp_sp1", "ptp_sp2", "ptp_exit"}
    \/ ret[t] \in {"ptp_sp2", "ptp_exit"}

\* C11 (Spec): prepareToPlay with a unit installed keeps the lock from its field
\* update to its return, so the callback runs nothing under the lock meanwhile
\* (no isSuspended, no processBlock); and when it returns the unit it found is
\* installed again, marked prepared, holds resources from a prepare that followed
\* the release, and was last configured with the player's new configuration.
C11_ReconfigureIsAtomic ==
    /\ [](\A t \in Threads : InConfigure(t) =>
            /\ lock = t
            /\ pc[Device] \notin {"cb_dispatch", "cb_process", "cb_return"})
    /\ [][\A t \in Threads :
            (pc[t] = "ptp_exit" /\ pc'[t] = "idle") =>
                /\ processor' = oldProcessor[t]
                /\ isPrepared'
                /\ unitLive'[oldProcessor[t]]
                /\ unitConfig'[oldProcessor[t]] =
                       <<numInputChans', numOutputChans', sampleRate', blockSize'>>
                /\ sampleRate' > 0]_vars

C11_Witness ==
    /\ pc["c1"] = "ptp_exit"
    /\ pc[Device] = "cb_lock"
    /\ processor = oldProcessor["c1"]
    /\ unitConfig[processor][3] = MaxRate

\* the player as audioDeviceStopped leaves it
StoppedState ==
    /\ pc[Device] = "idle"
    /\ sampleRate = 0
    /\ blockSize = 0
    /\ ~isPrepared
    /\ Len(tempBuffer) = 1
    /\ Len(tempBuffer[1]) = 1

\* C12 (SpecDevice): audioDeviceStopped calls releaseResources exactly when a unit
\* is installed and marked prepared, and ends with the rate and block size zero,
\* the prepared mark clear and tempBuffer 1 x 1; called again in the state it
\* left, it calls nothing and changes nothing.
C12_StopIsIdempotent ==
    [][/\ (pc[Device] = "idle" /\ pc'[Device] = "ads_release") =>
             (processor # NoUnit /\ isPrepared /\ ~unitLive'[processor]
                /\ UNCHANGED <<sampleRate, blockSize, isPrepared, tempBuffer>>)
       /\ AudioDeviceStopped =>
             (pc'[Device] = "ads_release" <=> (processor # NoUnit /\ isPrepared))
       /\ ((pc[Device] = "ads_release" /\ pc'[Device] = "idle")
             \/ (AudioDeviceStopped /\ pc'[Device] = "idle")) =>
             (StoppedState' /\ UNCHANGED <<processor, unitVars>>)
       /\ (StoppedState /\ AudioDeviceStopped) => UNCHANGED vars]_vars

C12_Witness ==
    /\ StoppedState
    /\ Len(channels) > 0
    /\ processor # NoUnit
    /\ ~unitLive[processor]
    /\ prepares[processor] = 1

\* a callback has been entered and has not returned
InCallback == pc[Device] \in {"cb_lock", "cb_dispatch", "cb_process", "cb_return"}

\* C13 (SpecFair): every audioDeviceIOCallback that was entered returns, whatever
\* setProcessor, prepareToPlay and audioDeviceStopped calls run beside it.
C13_CallbackReturns == InCallback ~> pc[Device] = "idle"

C13_Witness ==
    /\ pc[Device] = "cb_lock"
    /\ lock = "c1"
    /\ pc["c1"] = "sp_swap"
    /\ ret["c1"] = "ptp_exit"

\* C14 (SpecRace), as claimed: with two threads in setProcessor and callbacks
\* running, releaseResources is invoked on a unit only when that unit is not the
\* installed one.
C14_ReleaseOnlyUninstalled ==
    [][\A t \in Control :
          (pc[t] = "sp_swap" /\ pc'[t] = "sp_release") => oldOne'[t] # processor']_vars

\* C15 (Spec): in the callback the unit's callback lock is taken only by the
\* device thread while it holds the player lock, and is given up no later;
\* isSuspended has been asked and processBlock runs only with both locks held, on
\* the unit in the slot; and the slot does not change from the test of line 126
\* to the return of processBlock.
C15_LockOrder ==
    /\ [](/\ \A u \in Units : callbackLock[u] # NoThread =>
                /\ callbackLock[u] = Device
                /\ lock = Device
                /\ cb.unit = u
                /\ pc[Device] \in {"cb_process", "cb_return"}
          /\ (pc[Device] = "cb_process" \/ cb.suspended) =>
                /\ lock = Device
                /\ callbackLock[cb.unit] = Device
                /\ processor = cb.unit)
    /\ [][/\ pc[Device] \in {"cb_dispatch", "cb_process"} => processor' = processor
          /\ \A u \in Units :
                (callbackLock[u] = NoThread /\ callbackLock'[u] # NoThread) =>
                    (lock = Device /\ lock' = Device)]_vars

C15_Witness ==
    /\ pc[Device] = "cb_process"
    /\ pc["c1"] = "sp_swap"
    /\ arg["c1"] # processor
    /\ ret["c1"] = "idle"

\* C16 (SpecRemap): a callback calls processBlock at most once, and once exactly
\* when a unit is in the slot and says it is not suspended; the slice handed to
\* it holds the events that were pending when the callback began and no others
\* (none when none was pending, whatever the slice held before), those events
\* leave the queue, and the slice stays as it is until the callback returns.
C16_OneProcessPerBlock ==
    /\ [](cb.processCalls = IF pc[Device] = "cb_process"
                                \/ (pc[Device] = "cb_return" /\ cb.unit # NoUnit
                                      /\ ~cb.suspended)
                              THEN 1 ELSE 0)
    /\ [][/\ (pc[Device] = "cb_dispatch" /\ pc'[Device] # "cb_dispatch") =>
                (pc'[Device] = "cb_process" <=> (processor # NoUnit /\ ~cb'.suspended))
          /\ (pc[Device] = "idle" /\ pc'[Device] = "cb_lock") =>
                (incomingMidi' = midiQueue /\ midiQueue' = 0)
          /\ InCallback => incomingMidi' = incomingMidi]_vars

C16_Witness ==
    /\ pc[Device] = "cb_process"
    /\ incomingMidi = MaxPending
    /\ midiQueue = MaxPending

\* rows and columns of a sample buffer
Shape(buf) == <<Len(buf), Len(buf[1])>>

\* a step that begins a callback, and one that ends audioDeviceStopped
CallbackBegins == pc[Device] = "idle" /\ pc'[Device] = "cb_lock"
StopEnds == pc'[Device] = "idle" /\ sampleRate' = 0 /\ ~isPrepared'

\* C17 (SpecDevice): a callback with more inputs than outputs leaves tempBuffer
\* with numIn - numOut rows of numSamples samples, so it gives it a new shape only
\* when the shape differs (the first callback of a run of equal callbacks); a
\* callback with no surplus input leaves the shape alone; and so does every other
\* step but the end of audioDeviceStopped.
C17_ResizedOnlyOnChange ==
    [][/\ (CallbackBegins /\ cb'.numIn > cb'.numOut) =>
             Shape(tempBuffer') = <<cb'.numIn - cb'.numOut, cb'.numSamples>>
       /\ (CallbackBegins /\ cb'.numIn <= cb'.numOut) =>
             Shape(tempBuffer') = Shape(tempBuffer)
       /\ (~CallbackBegins /\ ~StopEnds) => Shape(tempBuffer') = Shape(tempBuffer)]_vars

C17_Witness ==
    /\ pc[Device] = "cb_process"
    /\ cb.numIn = MaxChans
    /\ cb.numOut = 0
    /\ cb.numSamples = MaxSamples
    /\ Shape(tempBuffer) = <<MaxChans, MaxSamples>>
    /\ tempBuffer[1][1] # Undef

\* C18 (SpecDevice): once prepareToPlay has run, `channels` has room for
\* max (numInputChans, numOutputChans) + 2 entries; a callback over at most the
\* configured channels writes entries 1 .. max (numIn, numOut) of it and no
\* other, all below the capacity.
C18_ChannelsFit ==
    channels # <<>> =>
        /\ Len(channels) = Max(numInputChans, numOutputChans) + ChannelSlack
        /\ InCallback =>
              /\ Len(cb.buffer) = Max(cb.numIn, cb.numOut)
              /\ Len(cb.buffer) < Len(channels)
              /\ \A k \in 1..Len(cb.buffer) : channels[k] = cb.buffer[k]
              /\ \A k \in 1..Len(cb.buffer) : cb.buffer[k] # NullPtr

C18_Witness ==
    /\ pc[Device] = "cb_dispatch"
    /\ cb.numIn = MaxChans
    /\ cb.numOut = 1
    /\ numOutputChans = 1
    /\ Len(cb.buffer) = MaxChans
    /\ Len(channels) = MaxChans + ChannelSlack

\* the unit whose releaseResources thread t is inside
ReleasedUnit(t) == IF pc[t] = "sp_release" THEN oldOne[t] ELSE processor

\* C19 (Spec), as claimed: releaseResources is called on a unit only while the
\* unit holds resources from a prepare that no release has yet matched.
C19_ReleaseMatchesPrepare ==
    [][\A t \in Threads :
          (~InRelease(t) /\ InRelease(t)') => unitLive[ReleasedUnit(t)']]_vars

\* C20 (Spec), as claimed: while the player is configured, processBlock runs on
\* a unit only if the setProcessor that installed it prepared it, with the
\* configuration the player has now.
C20_PublishedWithCurrentConfig ==
    \A u \in Units : (InProcessBlock(u) /\ sampleRate > 0 /\ blockSize > 0) =>
        /\ prepares[u] >= 1
        /\ unitConfig[u] = <<numInputChans, numOutputChans, sampleRate, blockSize>>

====
